---- MODULE Spec2Model ----
(***************************************************************************)
(* Lower-computer client: Connectivity Supervisor (HTTP long-polling       *)
(* heartbeat and WebSocket variants), Session Controller shutdown          *)
(* sequencing, and the Upload Scheduler built on a bounded thread pool.    *)
(*                                                                         *)
(* Time is discrete (one unit = one second).  Steps that do not block are  *)
(* instantaneous and take precedence over the passage of time; blocking    *)
(* calls (HTTP requests, time.sleep, Thread.join) last as long as their    *)
(* timers say.                                                             *)
(***************************************************************************)
EXTENDS Integers, Sequences, FiniteSets, TLC

\* ------------------------------------------------------------------------
\* Bounds of the model
\* ------------------------------------------------------------------------
\* number of successful connect_to_server calls (heartbeat threads created)
MaxConnects == 2
\* number of distinct files the operator can add to the work queue
MaxItems == 3
\* number of UploadWorker tasks created in one run
MaxTasks == 2
\* largest configured concurrent_uploads
MaxThreadCount == 2
\* number of UploadWorker tasks created in one run of the pool alone
MaxPoolTasks == 3

\* ------------------------------------------------------------------------
\* Program constants (seconds)
\* ------------------------------------------------------------------------
heartbeat_interval == 30
ProbeTimeout == 10
OfflineTimeout == 5
JoinTimeout == 3

VARIABLES
    \* --- LowerLongPollingClient / LowerLongPollingThread, per thread ---
    pc,                 \* position of the heartbeat thread in start()
    running,            \* LowerLongPollingClient.running
    connected,          \* LowerLongPollingClient.connected
    thread_running,     \* LowerLongPollingThread.running
    timer,              \* time left of the thread's current blocking call
    lastProbe,          \* outcome of the thread's most recent probe
    was_connected,      \* a probe of the thread has succeeded
    offlineSent,        \* departure notifications issued by the loop
    offlineResult,      \* how the loop's departure notification ended
    escaped,            \* an exception left LowerLongPollingClient.start()
    \* --- LowerComputerWindow / quit_qt_application (main thread) ---
    m_pc,               \* position of the main (GUI) thread
    joinLeft,           \* time left of the main thread's join(timeout)
    joinReturned,       \* threads on which a stop();join() has returned
    authenticated,      \* LowerComputerWindow.authenticated
    client,             \* LowerComputerWindow.client is not None
    long_polling_thread,\* LowerComputerWindow.long_polling_thread (0 = None)
    created,            \* number of heartbeat threads created so far
    apiOffline,         \* set_device_offline calls issued by quit_qt_application
    credentials,        \* server_url, device_id, hardware_key of each heartbeat thread
    connect_result,     \* message box the last connect_to_server ended with
    \* --- DeviceWebSocketClient / DeviceWebSocketThread ---
    ws_pc,              \* position of the WebSocket thread in run()/connect()
    ws_connected,       \* DeviceWebSocketClient.connected
    ws_running,         \* DeviceWebSocketClient.running
    websocket,          \* DeviceWebSocketClient.websocket is not None
    ws_open,            \* the underlying stream is open
    ws_thread_running,  \* DeviceWebSocketThread.running
    loop_running,       \* DeviceWebSocketThread.loop is running
    d_pc,               \* position of the scheduled disconnect() coroutine
    ws_events,          \* callbacks fired so far, in order
    ws_lastRecv,        \* outcome of the latest wait in _receive_messages
    ws_ping,            \* how the latest _send_ping call ended
    \* --- Work queue and Upload Scheduler (LowerComputerWindow) ---
    data_items,         \* LowerComputerWindow.data_items: paths in insertion order
    checked,            \* MeterDataListItem.checkbox.isChecked(), per path
    uploaded,           \* MeterDataListItem.uploaded, per path
    status,             \* MeterDataListItem.status_label, per path
    progress,           \* value last given to MeterDataListItem.set_progress
    upload_btn,         \* upload_btn.isEnabled()
    stop_upload_btn,    \* stop_upload_btn.isEnabled()
    add_btn,            \* add_excel_btn / add_image_btn .isEnabled()
    remove_btn,         \* remove_file_btn / clear_files_btn .isEnabled()
    maxThreadCount,     \* lower_config.concurrent_uploads
    tasks,              \* the UploadWorker objects created so far
    batches,            \* number of upload_data calls that created tasks
    events,             \* signals queued for delivery on the main thread
    dispatched,          \* the last result handled and the row it was applied to
    \* --- UploadWorker.run after upload_file has returned (lines 55-71) ---
    reply,              \* the item's kind and the result upload_file returned
    built               \* the compression ratio and the message made of it

pollVars == <<pc, running, connected, thread_running, timer, lastProbe,
              was_connected,
              offlineSent, offlineResult, escaped>>
mainVars == <<m_pc, joinLeft, joinReturned, authenticated, client,
              long_polling_thread, created, apiOffline, credentials,
              connect_result>>
wsVars == <<ws_pc, ws_connected, ws_running, websocket, ws_open,
            ws_thread_running, loop_running, d_pc, ws_events, ws_lastRecv,
            ws_ping>>
upVars == <<data_items, checked, uploaded, status, progress, upload_btn,
            stop_upload_btn, add_btn, remove_btn, maxThreadCount, tasks,
            batches, events, dispatched>>
msgVars == <<reply, built>>
vars == <<pollVars, mainVars, wsVars, upVars, msgVars>>

Threads == 1..MaxConnects

ProbeFailures == {"status", "timeout", "conn_error", "error"}
ProbeOutcomes == {"ok"} \cup ProbeFailures

LoopPcs == {"loop", "probe", "wait", "sleep"}
InstantPcs == {"start", "loop", "wait", "final"}
TimedPcs == {"probe", "sleep", "offline"}

Alive == m_pc # "exited"

\* ------------------------------------------------------------------------
\* LowerLongPollingClient.start, run by LowerLongPollingThread.run
\* ------------------------------------------------------------------------

\* line 39: self.running = True
Start_Begin(t) ==
    /\ Alive /\ pc[t] = "start"
    /\ running' = [running EXCEPT ![t] = TRUE]
    /\ pc' = [pc EXCEPT ![t] = "loop"]
    /\ UNCHANGED <<connected, thread_running, timer, lastProbe, was_connected, offlineSent,
                   offlineResult, escaped, mainVars, wsVars, upVars, msgVars>>

\* line 43: while self.running -> issue the probe (46-53), or leave the
\* loop and issue the departure notification (82-90)
Start_While(t) ==
    /\ Alive /\ pc[t] = "loop"
    /\ IF running[t]
         THEN /\ pc' = [pc EXCEPT ![t] = "probe"]
              /\ timer' = [timer EXCEPT ![t] = ProbeTimeout]
              /\ UNCHANGED offlineSent
         ELSE /\ pc' = [pc EXCEPT ![t] = "offline"]
              /\ timer' = [timer EXCEPT ![t] = OfflineTimeout]
              /\ offlineSent' = [offlineSent EXCEPT ![t] = @ + 1]
    /\ UNCHANGED <<running, connected, thread_running, lastProbe, was_connected,
                   offlineResult, escaped, mainVars, wsVars, upVars, msgVars>>

\* (mutant) a failed probe leaves the flag as it was
ProbeConnected_Sticky(t, outcome) ==
    IF outcome = "ok" THEN TRUE ELSE connected[t]

\* lines 55-75: the state recorded for each outcome of the probe
ProbeConnected(t, outcome) ==
    IF outcome = "ok"
      THEN (IF ~connected[t] THEN TRUE ELSE connected[t])
      ELSE FALSE

\* (mutant) the last handler names one exception type, so any other
\* exception leaves the loop
ProbeCaught_Narrow(outcome) == outcome # "error"

\* lines 65-75: every exception of the probe is caught inside the loop
ProbeCaught(outcome) == TRUE

\* lines 46-75: the probe returns or raises; "timeout" is raised when the
\* request's timeout expires, every other outcome arrives before that
Start_Probe(t, outcome) ==
    /\ Alive /\ pc[t] = "probe"
    /\ IF outcome = "timeout" THEN timer[t] = 0 ELSE timer[t] > 0
    /\ lastProbe' = [lastProbe EXCEPT ![t] = outcome]
    /\ was_connected' = [was_connected EXCEPT ![t] = @ \/ outcome = "ok"]
    /\ IF ProbeCaught(outcome)
         THEN /\ connected' = [connected EXCEPT ![t] = ProbeConnected(t, outcome)]
              /\ pc' = [pc EXCEPT ![t] = "wait"]
              /\ UNCHANGED escaped
         ELSE /\ pc' = [pc EXCEPT ![t] = "done"]
              /\ escaped' = [escaped EXCEPT ![t] = TRUE]
              /\ UNCHANGED connected
    /\ timer' = [timer EXCEPT ![t] = 0]
    /\ UNCHANGED <<running, thread_running, offlineSent, offlineResult,
                   mainVars, wsVars, upVars, msgVars>>

\* lines 78-79: if self.running: time.sleep(self.heartbeat_interval)
Start_Wait(t) ==
    /\ Alive /\ pc[t] = "wait"
    /\ IF running[t]
         THEN /\ pc' = [pc EXCEPT ![t] = "sleep"]
              /\ timer' = [timer EXCEPT ![t] = heartbeat_interval]
         ELSE /\ pc' = [pc EXCEPT ![t] = "loop"]
              /\ UNCHANGED timer
    /\ UNCHANGED <<running, connected, thread_running, lastProbe, was_connected, offlineSent,
                   offlineResult, escaped, mainVars, wsVars, upVars, msgVars>>

\* line 79: time.sleep returns only when the whole interval has elapsed
Start_Wake(t) ==
    /\ Alive /\ pc[t] = "sleep"
    /\ timer[t] = 0
    /\ pc' = [pc EXCEPT ![t] = "loop"]
    /\ timer' = [timer EXCEPT ![t] = 0]
    /\ UNCHANGED <<running, connected, thread_running, lastProbe, was_connected, offlineSent,
                   offlineResult, escaped, mainVars, wsVars, upVars, msgVars>>

\* (mutant) no handler around the departure notification
OfflineCaught_None(ok) == ok

\* lines 92-93: a failure of the departure notification is swallowed
OfflineCaught(ok) == TRUE

\* lines 82-93: the departure notification returns (ok) or raises (~ok);
\* its timeout is raised when the 5 s expire
Start_Offline(t, ok) ==
    /\ Alive /\ pc[t] = "offline"
    /\ ok => timer[t] > 0
    /\ IF OfflineCaught(ok)
         THEN /\ pc' = [pc EXCEPT ![t] = "final"]
              /\ UNCHANGED escaped
         ELSE /\ pc' = [pc EXCEPT ![t] = "done"]
              /\ escaped' = [escaped EXCEPT ![t] = TRUE]
    /\ timer' = [timer EXCEPT ![t] = 0]
    /\ offlineResult' = [offlineResult EXCEPT ![t] = IF ok THEN "ok" ELSE "failed"]
    /\ UNCHANGED <<running, connected, thread_running, lastProbe, was_connected, offlineSent,
                   mainVars, wsVars, upVars, msgVars>>

\* line 95: self.connected = False; start() returns
Start_Final(t) ==
    /\ Alive /\ pc[t] = "final"
    /\ connected' = [connected EXCEPT ![t] = FALSE]
    /\ pc' = [pc EXCEPT ![t] = "done"]
    /\ UNCHANGED <<running, thread_running, timer, lastProbe, was_connected, offlineSent,
                   offlineResult, escaped, mainVars, wsVars, upVars, msgVars>>

\* LowerLongPollingClient.is_connected
is_connected(t) == connected[t] /\ running[t]

\* LowerLongPollingThread.stop (lines 123-126) calling
\* LowerLongPollingClient.stop (lines 98-101)
StopFlags(f, t) == [f EXCEPT ![t] = FALSE]

\* Thread.join returns when the thread has ended or the timeout has expired
JoinOver(t) == pc[t] = "done" \/ joinLeft = 0

\* ------------------------------------------------------------------------
\* LowerComputerWindow (main thread), long_polling connection mode
\* ------------------------------------------------------------------------

\* what the operator can have typed into server_input and device_id_input,
\* and what lower_config.hardware_key can hold (lines 479-481)
ConnectInputs ==
    [server_url : {"", " ", "url"}, device_id : {"", " ", "id"},
     hardware_key : {"", "key"}]

\* str.strip() on the texts of the model
strip(text) == IF text = " " THEN "" ELSE text

\* lines 479-481: the two input fields are stripped, the key is read as is
Entered(c) ==
    [server_url |-> strip(c.server_url), device_id |-> strip(c.device_id),
     hardware_key |-> c.hardware_key]

\* (mutant) connect_to_server does not look at what was entered
all_given_Unchecked(c) == TRUE

\* line 483: all([server_url, device_id, hardware_key])
all_given(c) == c.server_url # "" /\ c.device_id # "" /\ c.hardware_key # ""

\* connect_to_server with something missing (lines 483-485): a warning is
\* shown and the call returns
ConnectRejected(c) ==
    /\ m_pc = "idle"
    /\ ~all_given(Entered(c))
    /\ connect_result' = "warning"
    /\ UNCHANGED <<pollVars, m_pc, joinLeft, joinReturned, authenticated,
                   client, long_polling_thread, created, apiOffline,
                   credentials, wsVars, upVars, msgVars>>

\* connect_to_server, authenticate_device raises (lines 488-494, 541-545)
ConnectFail(c) ==
    /\ m_pc = "idle"
    /\ all_given(Entered(c))
    /\ client' = TRUE
    /\ authenticated' = FALSE
    /\ connect_result' = "critical"
    /\ UNCHANGED <<pollVars, m_pc, joinLeft, joinReturned,
                   long_polling_thread, created, apiOffline, credentials,
                   wsVars, upVars, msgVars>>

\* connect_to_server, authentication succeeds (lines 488-512): a new
\* LowerLongPollingThread is created and started
ConnectOK(c) ==
    /\ m_pc = "idle"
    /\ all_given(Entered(c))
    /\ created < MaxConnects
    /\ connect_result' = "information"
    /\ LET t == created + 1 IN
         /\ credentials' = [credentials EXCEPT ![t] = Entered(c)]
         /\ client' = TRUE
         /\ authenticated' = TRUE
         /\ created' = t
         /\ long_polling_thread' = t
         /\ pc' = [pc EXCEPT ![t] = "start"]
         /\ thread_running' = [thread_running EXCEPT ![t] = TRUE]
    \* lines 533-537: the queue controls are enabled
    /\ add_btn' = TRUE
    /\ remove_btn' = TRUE
    /\ UNCHANGED <<running, connected, timer, lastProbe, was_connected, offlineSent,
                   offlineResult, escaped, m_pc, joinLeft, joinReturned,
                   apiOffline, wsVars, data_items, checked, uploaded, status,
                   progress, upload_btn, stop_upload_btn, maxThreadCount,
                   tasks, batches, events, dispatched, msgVars>>

\* closeEvent (lines 893-902): stop() then join(timeout=3), which calls
\* stop() again and waits
CloseEvent ==
    /\ m_pc = "idle"
    /\ IF long_polling_thread # 0
         THEN /\ thread_running' = StopFlags(thread_running, long_polling_thread)
              /\ running' = StopFlags(running, long_polling_thread)
              /\ m_pc' = "ce_join"
              /\ joinLeft' = JoinTimeout
         ELSE /\ m_pc' = "closed"
              /\ UNCHANGED <<thread_running, running, joinLeft>>
    /\ UNCHANGED <<pc, connected, timer, lastProbe, was_connected, offlineSent,
                   offlineResult, escaped, joinReturned, authenticated, client, credentials, connect_result, long_polling_thread,
                   created, apiOffline, wsVars, upVars, msgVars>>

\* closeEvent (lines 902-905): join returns, the window closes
CloseEvent_Joined ==
    /\ m_pc = "ce_join"
    /\ JoinOver(long_polling_thread)
    /\ m_pc' = "closed"
    /\ joinLeft' = 0
    /\ joinReturned' = joinReturned \cup {long_polling_thread}
    /\ UNCHANGED <<pollVars, authenticated, client, credentials, connect_result, long_polling_thread,
                   created, apiOffline, wsVars, upVars, msgVars>>

\* quit_qt_application (lines 921-932), run on aboutToQuit
Quit ==
    /\ m_pc = "closed"
    /\ IF authenticated
         THEN IF long_polling_thread # 0
                THEN /\ thread_running' = StopFlags(thread_running, long_polling_thread)
                     /\ running' = StopFlags(running, long_polling_thread)
                     /\ m_pc' = "quit_join"
                     /\ joinLeft' = JoinTimeout
                ELSE /\ m_pc' = "quit_offline"
                     /\ UNCHANGED <<thread_running, running, joinLeft>>
         ELSE /\ m_pc' = "quit_done"
              /\ UNCHANGED <<thread_running, running, joinLeft>>
    /\ UNCHANGED <<pc, connected, timer, lastProbe, was_connected, offlineSent,
                   offlineResult, escaped, joinReturned, authenticated, client, credentials, connect_result, long_polling_thread,
                   created, apiOffline, wsVars, upVars, msgVars>>

\* quit_qt_application (line 932): join returns
Quit_Joined ==
    /\ m_pc = "quit_join"
    /\ JoinOver(long_polling_thread)
    /\ m_pc' = "quit_offline"
    /\ joinLeft' = 0
    /\ joinReturned' = joinReturned \cup {long_polling_thread}
    /\ UNCHANGED <<pollVars, authenticated, client, credentials, connect_result, long_polling_thread,
                   created, apiOffline, wsVars, upVars, msgVars>>

\* quit_qt_application (lines 935-942): the extra set_device_offline call,
\* whose failure is logged
Quit_SetOffline ==
    /\ m_pc = "quit_offline"
    /\ apiOffline' = IF client THEN apiOffline + 1 ELSE apiOffline
    /\ m_pc' = "quit_done"
    /\ UNCHANGED <<pollVars, joinLeft, joinReturned, authenticated, client, credentials, connect_result,
                   long_polling_thread, created, wsVars, upVars, msgVars>>

\* main (line 950): sys.exit ends the process and its daemon threads
ProcessExit ==
    /\ m_pc = "quit_done"
    /\ m_pc' = "exited"
    /\ UNCHANGED <<pollVars, joinLeft, joinReturned, authenticated, client, credentials, connect_result,
                   long_polling_thread, created, apiOffline, wsVars, upVars, msgVars>>

\* ------------------------------------------------------------------------
\* Passage of time
\* ------------------------------------------------------------------------
MainInstant == m_pc \in {"closed", "quit_offline", "quit_done"}
MainJoining == m_pc \in {"ce_join", "quit_join"}

Tick ==
    /\ Alive
    /\ ~MainInstant
    /\ \A t \in Threads : pc[t] \notin InstantPcs
    /\ \A t \in Threads : pc[t] \in TimedPcs => timer[t] > 0
    /\ MainJoining => ~JoinOver(long_polling_thread)
    /\ (\E t \in Threads : pc[t] \in TimedPcs) \/ MainJoining
    /\ timer' = [t \in Threads |->
                    IF pc[t] \in TimedPcs THEN timer[t] - 1 ELSE timer[t]]
    /\ joinLeft' = IF MainJoining THEN joinLeft - 1 ELSE joinLeft
    /\ UNCHANGED <<pc, running, connected, thread_running, lastProbe, was_connected,
                   offlineSent, offlineResult, escaped, m_pc, joinReturned, authenticated,
                   client, credentials, connect_result, long_polling_thread, created, apiOffline, wsVars, upVars, msgVars>>

\* ------------------------------------------------------------------------
\* Work queue and Upload Scheduler (LowerComputerWindow, UploadWorker)
\* ------------------------------------------------------------------------
\* The files the operator can pick, each named by its full path 1..MaxItems.
Items == 1..MaxItems
TaskIds == 1..MaxTasks

\* file_path.name: the last path lies in another directory and carries
\* the same file name as the first
FileName(i) == IF i = MaxItems THEN 1 ELSE i

InQueue(i) == \E n \in 1..Len(data_items) : data_items[n] = i

\* MeterDataListItem.set_progress (lines 157-163): a positive value is
\* shown, any other value hides the bar (written 0)
set_progress(f, i, value) == [f EXCEPT ![i] = IF value > 0 THEN value ELSE 0]

\* (mutant) the checkbox is not consulted
is_selected_IgnoresCheckbox(i) == ~uploaded[i]

\* (mutant) the uploaded flag is not consulted
is_selected_IgnoresUploaded(i) == checked[i]

\* MeterDataListItem.is_selected (lines 153-155)
is_selected(i) == checked[i] /\ ~uploaded[i]

\* the paths of data_items from position n on that satisfy is_selected
\* (upload_data, lines 699-702)
RECURSIVE SelectedFrom(_)
SelectedFrom(n) ==
    IF n > Len(data_items) THEN << >>
    ELSE IF is_selected(data_items[n])
           THEN <<data_items[n]>> \o SelectedFrom(n + 1)
           ELSE SelectedFrom(n + 1)

\* first entry of data_items, from position n on, whose file name is name;
\* 0 when there is none (on_upload_progress / on_upload_finished loops)
RECURSIVE FirstNamed(_, _)
FirstNamed(name, n) ==
    IF n > Len(data_items) THEN 0
    ELSE IF FileName(data_items[n]) = name
           THEN data_items[n]
           ELSE FirstNamed(name, n + 1)

\* QThreadPool: tasks holding a pool thread, and tasks waiting in the queue
Active(ts) == {k \in 1..Len(ts) : ts[k].state \in {"started", "uploading"}}
Queued(ts) == {k \in 1..Len(ts) : ts[k].state = "queued"}

\* (mutant) setMaxThreadCount is never called: every task gets a thread
PoolLimit_NotSet == MaxTasks

\* __init__ (lines 178-179): setMaxThreadCount(concurrent_uploads)
PoolLimit == maxThreadCount

\* QThreadPool.start (line 743), for a task appended to ts: it runs at
\* once when a thread is free and is queued otherwise
PoolStart(ts, i, b) ==
    Append(ts, [item |-> i, batch |-> b, emitted |-> 0,
                state |-> IF Cardinality(Active(ts)) < PoolLimit
                            THEN "started" ELSE "queued"])

\* upload_data (lines 722-743) for the selected paths sel, from index n on
RECURSIVE StartAll(_, _, _, _)
StartAll(ts, sel, n, b) ==
    IF n > Len(sel) THEN ts
    ELSE StartAll(PoolStart(ts, sel[n], b), sel, n + 1, b)

SeqToSet(q) == {q[n] : n \in 1..Len(q)}

\* update_data_count (lines 675-686)
update_data_count(items) == Len(items) > 0 /\ authenticated

\* add_meter_data (lines 583-616), reached from the add buttons
add_meter_data(i) ==
    /\ m_pc = "idle" /\ add_btn
    /\ ~InQueue(i)
    /\ data_items' = Append(data_items, i)
    /\ checked' = [checked EXCEPT ![i] = TRUE]
    /\ uploaded' = [uploaded EXCEPT ![i] = FALSE]
    /\ status' = [status EXCEPT ![i] = "waiting"]
    /\ progress' = [progress EXCEPT ![i] = 0]
    /\ upload_btn' = update_data_count(data_items')
    /\ UNCHANGED <<stop_upload_btn, add_btn, remove_btn, maxThreadCount,
                   tasks, batches, events, dispatched, pollVars, mainVars, wsVars, msgVars>>

\* the widget of a removed path is destroyed
Dropped(f, gone, v) == [i \in Items |-> IF i \in gone THEN v ELSE f[i]]

\* remove_selected_data (lines 620-641) with one row highlighted
remove_selected_data(i) ==
    /\ m_pc = "idle" /\ remove_btn
    /\ InQueue(i)
    /\ data_items' = SelectSeq(data_items, LAMBDA x : x # i)
    /\ checked' = Dropped(checked, {i}, FALSE)
    /\ uploaded' = Dropped(uploaded, {i}, FALSE)
    /\ status' = Dropped(status, {i}, "none")
    /\ progress' = Dropped(progress, {i}, 0)
    /\ upload_btn' = update_data_count(data_items')
    /\ UNCHANGED <<stop_upload_btn, add_btn, remove_btn, maxThreadCount,
                   tasks, batches, events, dispatched, pollVars, mainVars, wsVars, msgVars>>

\* clear_data_list (lines 643-657), confirmed
clear_data_list ==
    /\ m_pc = "idle" /\ remove_btn
    /\ Len(data_items) > 0
    /\ data_items' = << >>
    /\ checked' = Dropped(checked, Items, FALSE)
    /\ uploaded' = Dropped(uploaded, Items, FALSE)
    /\ status' = Dropped(status, Items, "none")
    /\ progress' = Dropped(progress, Items, 0)
    /\ upload_btn' = update_data_count(data_items')
    /\ UNCHANGED <<stop_upload_btn, add_btn, remove_btn, maxThreadCount,
                   tasks, batches, events, dispatched, pollVars, mainVars, wsVars, msgVars>>

\* the operator ticks or unticks the checkbox of a row
toggle_checkbox(i) ==
    /\ m_pc = "idle"
    /\ InQueue(i)
    /\ checked' = [checked EXCEPT ![i] = ~checked[i]]
    /\ UNCHANGED <<data_items, uploaded, status, progress, upload_btn,
                   stop_upload_btn, add_btn, remove_btn, maxThreadCount,
                   tasks, batches, events, dispatched, pollVars, mainVars, wsVars, msgVars>>

\* select_all_data (lines 659-665): every row that is not uploaded is ticked
select_all_data ==
    /\ m_pc = "idle"
    /\ Len(data_items) > 0
    /\ checked' = [i \in Items |->
                      IF InQueue(i) /\ ~uploaded[i] THEN TRUE ELSE checked[i]]
    /\ UNCHANGED <<data_items, uploaded, status, progress, upload_btn,
                   stop_upload_btn, add_btn, remove_btn, maxThreadCount,
                   tasks, batches, events, dispatched, pollVars, mainVars, wsVars, msgVars>>

\* deselect_all_data (lines 667-673): every row that is not uploaded is
\* unticked
deselect_all_data ==
    /\ m_pc = "idle"
    /\ Len(data_items) > 0
    /\ checked' = [i \in Items |->
                      IF InQueue(i) /\ ~uploaded[i] THEN FALSE ELSE checked[i]]
    /\ UNCHANGED <<data_items, uploaded, status, progress, upload_btn,
                   stop_upload_btn, add_btn, remove_btn, maxThreadCount,
                   tasks, batches, events, dispatched, pollVars, mainVars, wsVars, msgVars>>

\* upload_data (lines 688-743)
upload_data ==
    /\ m_pc = "idle" /\ upload_btn
    /\ LET sel == SelectedFrom(1) IN
       IF ~authenticated \/ Len(data_items) = 0 \/ Len(sel) = 0
         THEN UNCHANGED upVars
         ELSE /\ upload_btn' = FALSE
              /\ stop_upload_btn' = TRUE
              /\ add_btn' = FALSE
              /\ status' = [i \in Items |->
                              IF i \in SeqToSet(sel) THEN "uploading" ELSE status[i]]
              /\ progress' = [i \in Items |->
                              IF i \in SeqToSet(sel) THEN 0 ELSE progress[i]]
              /\ batches' = batches + 1
              /\ tasks' = StartAll(tasks, sel, 1, batches + 1)
              /\ UNCHANGED <<data_items, checked, uploaded, remove_btn,
                             maxThreadCount, events, dispatched>>
    /\ UNCHANGED <<pollVars, mainVars, wsVars, msgVars>>

\* upload_data while it leaves the number of tasks created within n
Submit(n) == Len(tasks) + Len(SelectedFrom(1)) <= n /\ upload_data

\* restore_upload_buttons (lines 810-815)
restore_upload_buttons ==
    /\ upload_btn' = TRUE
    /\ stop_upload_btn' = FALSE
    /\ add_btn' = TRUE

\* (mutant) the queue of the pool is left as it is
clear_Nothing(ts) == ts

\* QThreadPool.clear (line 755): the tasks that wait in the queue are
\* removed from it; a task a thread has taken is not touched
clear(ts) ==
    [k \in 1..Len(ts) |->
        IF ts[k].state = "queued" THEN [ts[k] EXCEPT !.state = "cleared"]
                                  ELSE ts[k]]

\* stop_upload (lines 745-757), confirmed: QThreadPool.clear() drops the
\* tasks that wait in the queue
stop_upload ==
    /\ m_pc = "idle" /\ stop_upload_btn
    /\ tasks' = clear(tasks)
    /\ restore_upload_buttons
    /\ UNCHANGED <<data_items, checked, uploaded, status, progress,
                   remove_btn, maxThreadCount, batches, events, dispatched,
                   pollVars, mainVars, wsVars, msgVars>>

\* ------------------------------------------------------------------------
\* UploadWorker.run, on a pool thread
\* ------------------------------------------------------------------------
Progress(k, name, v) == [sig |-> "progress", task |-> k, name |-> name, value |-> v]
Finished(k, name, ok, msg) ==
    [sig |-> "finished", task |-> k, name |-> name, success |-> ok, message |-> msg]

\* str(e) of the exception a transfer raises: the empty text is the least
\* a handler can be given
ErrorTexts == {<< >>}
\* how upload_file can end: it returns a well-formed result, it returns a
\* result the size arithmetic cannot use, or it raises
Outcomes == {"ok", "bad_result", "raise"}

\* line 61 / line 75: the message of the result
SuccessMessage == <<"upload ok, file id ", "id">>
FailMessage(e) == <<"upload failed: ">> \o e

\* how many of the signals in q are finished signals
FinishedIn(q) == Cardinality({n \in 1..Len(q) : q[n].sig = "finished"})

\* (mutant) no handler at the task boundary: a raising transfer emits
\* no result
RunTail_NoHandler(k, name, outcome, e) ==
    CASE outcome = "ok" ->
            <<Progress(k, name, 100), Finished(k, name, TRUE, SuccessMessage)>>
      [] outcome = "bad_result" -> <<Progress(k, name, 100)>>
      [] OTHER -> << >>

\* lines 55-75: the signals run() emits once upload_file has ended
RunTail(k, name, outcome, e) ==
    CASE outcome = "ok" ->
            <<Progress(k, name, 100), Finished(k, name, TRUE, SuccessMessage)>>
      [] outcome = "bad_result" ->
            <<Progress(k, name, 100), Progress(k, name, 0),
              Finished(k, name, FALSE, FailMessage(e))>>
      [] OTHER ->
            <<Progress(k, name, 0), Finished(k, name, FALSE, FailMessage(e))>>

\* The slots write the rows and the buttons, the workers write tasks and
\* append to events: a slot and a worker step commute, and the emissions
\* are delivered in the order they were made.  A worker step is therefore
\* taken once the signals already queued have been handled.
SlotsIdle == events = << >>

\* lines 42-53: run() starts, emits progress 30 and calls upload_file
Worker_Run(k) ==
    /\ k \in 1..Len(tasks) /\ tasks[k].state = "started"
    /\ SlotsIdle
    /\ tasks' = [tasks EXCEPT ![k].state = "uploading"]
    /\ events' = Append(events, Progress(k, FileName(tasks[k].item), 30))
    /\ UNCHANGED <<data_items, checked, uploaded, status, progress,
                   upload_btn, stop_upload_btn, add_btn, remove_btn,
                   maxThreadCount, batches, dispatched, pollVars, mainVars, wsVars, msgVars>>

\* (mutant) the thread that has finished a task takes the task that was
\* queued last
TakeNext_Newest(ts) ==
    IF Queued(ts) = {} \/ Cardinality(Active(ts)) >= PoolLimit THEN ts
    ELSE LET k == CHOOSE q \in Queued(ts) : \A r \in Queued(ts) : q >= r
         IN [ts EXCEPT ![k].state = "started"]

\* QThreadPool: the thread that has finished a task takes the first
\* waiting task
TakeNext(ts) ==
    IF Queued(ts) = {} \/ Cardinality(Active(ts)) >= PoolLimit THEN ts
    ELSE LET k == CHOOSE q \in Queued(ts) : \A r \in Queued(ts) : q <= r
         IN [ts EXCEPT ![k].state = "started"]

\* lines 48-75: upload_file ends, the remaining signals are emitted and
\* run() returns
Worker_Finish(k, outcome, e) ==
    /\ k \in 1..Len(tasks) /\ tasks[k].state = "uploading"
    /\ SlotsIdle
    /\ outcome = "ok" => e = << >>
    /\ LET tail == RunTail(k, FileName(tasks[k].item), outcome, e) IN
         /\ events' = events \o tail
         /\ tasks' = TakeNext([tasks EXCEPT ![k].state = "done",
                                            ![k].emitted = FinishedIn(tail)])
    /\ UNCHANGED <<data_items, checked, uploaded, status, progress,
                   upload_btn, stop_upload_btn, add_btn, remove_btn,
                   maxThreadCount, batches, dispatched, pollVars, mainVars, wsVars, msgVars>>

\* ------------------------------------------------------------------------
\* Slots run on the main thread for the queued signals
\* ------------------------------------------------------------------------
\* on_upload_progress (lines 759-765)
on_upload_progress ==
    /\ m_pc = "idle"
    /\ Len(events) > 0 /\ Head(events).sig = "progress"
    /\ LET ev == Head(events)
           i == FirstNamed(ev.name, 1) IN
       progress' = IF i = 0 THEN progress ELSE set_progress(progress, i, ev.value)
    /\ events' = Tail(events)
    /\ UNCHANGED <<data_items, checked, uploaded, status, upload_btn,
                   stop_upload_btn, add_btn, remove_btn, maxThreadCount,
                   tasks, batches, dispatched, pollVars, mainVars, wsVars, msgVars>>

\* check_all_uploads_finished (lines 787-808): the tally over data_items
all_finished(st) == \A i \in SeqToSet(data_items) : st[i] # "uploading"
success_count(st) == Cardinality({i \in SeqToSet(data_items) : st[i] = "success"})
fail_count(st) == Cardinality({i \in SeqToSet(data_items) : st[i] = "failed"})
ReportsCompletion(st) ==
    all_finished(st) /\ (success_count(st) > 0 \/ fail_count(st) > 0)

\* the rows, the pool and the controls once on_upload_finished has written
\* the result at the head of events to its row (lines 769-782)
AfterResult ==
    LET ev == Head(events)
        i == FirstNamed(ev.name, 1) IN
    [status |-> IF i = 0 THEN status
                ELSE [status EXCEPT ![i] = IF ev.success THEN "success"
                                                        ELSE "failed"],
     progress |-> IF i = 0 THEN progress
                  ELSE set_progress(progress, i, IF ev.success THEN 100 ELSE 0),
     uploaded |-> IF i # 0 /\ ev.success
                    THEN [uploaded EXCEPT ![i] = TRUE] ELSE uploaded,
     checked |-> IF i # 0 /\ ev.success
                   THEN [checked EXCEPT ![i] = FALSE] ELSE checked,
     tasks |-> tasks,
     upload_btn |-> upload_btn, stop_upload_btn |-> stop_upload_btn,
     add_btn |-> add_btn]

\* restore_upload_buttons (lines 810-815) on such a record
Restored(w) ==
    [w EXCEPT !.upload_btn = TRUE, !.stop_upload_btn = FALSE, !.add_btn = TRUE]

\* (mutant) the rows that were counted are put back to waiting
check_all_uploads_finished_Consumes(w) ==
    IF ReportsCompletion(w.status)
      THEN [Restored(w) EXCEPT !.status =
              [i \in Items |-> IF w.status[i] \in {"success", "failed"}
                                 THEN "waiting" ELSE w.status[i]]]
      ELSE w

\* check_all_uploads_finished (lines 787-808)
check_all_uploads_finished(w) ==
    IF ReportsCompletion(w.status) THEN Restored(w) ELSE w

\* on_upload_finished (lines 767-785) followed by
\* check_all_uploads_finished (lines 787-808)
on_upload_finished ==
    /\ m_pc = "idle"
    /\ Len(events) > 0 /\ Head(events).sig = "finished"
    /\ LET ev == Head(events)
           w == check_all_uploads_finished(AfterResult) IN
         /\ status' = w.status
         /\ progress' = w.progress
         /\ uploaded' = w.uploaded
         /\ checked' = w.checked
         /\ upload_btn' = w.upload_btn
         /\ stop_upload_btn' = w.stop_upload_btn
         /\ add_btn' = w.add_btn
         /\ tasks' = w.tasks
         /\ dispatched' = [task |-> ev.task, item |-> FirstNamed(ev.name, 1),
                            success |-> ev.success,
                            own |-> InQueue(tasks[ev.task].item)]
    /\ events' = Tail(events)
    /\ UNCHANGED <<data_items, remove_btn, maxThreadCount, batches,
                   pollVars, mainVars, wsVars, msgVars>>

UploadInit ==
    /\ data_items = << >>
    /\ checked = [i \in Items |-> FALSE]
    /\ uploaded = [i \in Items |-> FALSE]
    /\ status = [i \in Items |-> "none"]
    /\ progress = [i \in Items |-> 0]
    /\ upload_btn = FALSE
    /\ stop_upload_btn = FALSE
    /\ add_btn = FALSE
    /\ remove_btn = FALSE
    /\ maxThreadCount \in 1..MaxThreadCount
    /\ tasks = << >>
    /\ batches = 0
    /\ events = << >>
    /\ dispatched = [task |-> 0, item |-> 0, success |-> FALSE, own |-> FALSE]

\* ------------------------------------------------------------------------
\* UploadWorker.run, lines 55-71: the success message of one transfer
\* ------------------------------------------------------------------------
\* the sizes a server response can carry, in bytes
Sizes == {0, 1, 2, 3, 500000, 2000000}
SizeKeys == {"original_size", "compressed_size"}

\* the result dictionaries upload_file can return: each size key is present
\* or missing
Results == UNION {[D -> Sizes] : D \in SUBSET SizeKeys}

\* dict.get(key, default) (lines 57-58)
get(result, key, default) == IF key \in DOMAIN result THEN result[key] ELSE default

Abs(n) == IF n < 0 THEN 0 - n ELSE n

RECURSIVE GCD(_, _)
GCD(a, b) == IF b = 0 THEN a ELSE GCD(b, a % b)

\* the number n / d, d > 0, in lowest terms
Fraction(n, d) ==
    LET g == GCD(Abs(n), d) IN
    [raised |-> FALSE, num |-> n \div g, den |-> d \div g]

\* Python's a / b: ZeroDivisionError when b is 0
TrueDiv(a, b) ==
    IF b = 0 THEN [raised |-> TRUE, num |-> 0, den |-> 1] ELSE Fraction(a, b)

\* Python's q * n for a quotient q
Times(q, n) == IF q.raised THEN q ELSE Fraction(q.num * n, q.den)

Zero == [raised |-> FALSE, num |-> 0, den |-> 1]

\* (mutant) the quotient is formed whatever the original size is
compression_ratio_Unguarded(result) ==
    LET original_size == get(result, "original_size", 0)
        compressed_size == get(result, "compressed_size", 0) IN
    Times(TrueDiv(original_size - compressed_size, original_size), 100)

\* lines 57-59
compression_ratio(result) ==
    LET original_size == get(result, "original_size", 0)
        compressed_size == get(result, "compressed_size", 0) IN
    IF original_size > 0
      THEN Times(TrueDiv(original_size - compressed_size, original_size), 100)
      ELSE Zero

\* lines 61-69: the lines of the message, for a ratio that was computed
message_lines(is_image, ratio) ==
    <<"file id">> \o
    (IF is_image /\ ratio.num > 0
       THEN <<"original size", "compressed size", "compression ratio">>
       ELSE << >>)

NoReply == [given |-> FALSE, is_image |-> FALSE, result |-> << >>]
NotBuilt == [done |-> FALSE, ratio |-> Zero, message |-> << >>]

\* line 48: upload_file returns result for an item that is an image or not
UploadReturns(is_image, result) ==
    /\ ~reply.given \/ built.done
    /\ reply' = [given |-> TRUE, is_image |-> is_image, result |-> result]
    /\ built' = NotBuilt
    /\ UNCHANGED <<pollVars, mainVars, wsVars, upVars>>

\* lines 57-69: the ratio and the message are computed; a raised error
\* leaves the try block before the message is built
BuildMessage ==
    /\ reply.given /\ ~built.done
    /\ LET ratio == compression_ratio(reply.result) IN
       built' = [done |-> TRUE, ratio |-> ratio,
                 message |-> IF ratio.raised THEN << >>
                             ELSE message_lines(reply.is_image, ratio)]
    /\ UNCHANGED <<reply, pollVars, mainVars, wsVars, upVars>>

MessageInit ==
    /\ reply = NoReply
    /\ built = NotBuilt

MessageNext ==
    \/ \E is_image \in BOOLEAN, result \in Results : UploadReturns(is_image, result)
    \/ BuildMessage

\* ------------------------------------------------------------------------
\* Specifications
\* ------------------------------------------------------------------------
\* a thread that has not been constructed holds no credentials
NoCredentials == [server_url |-> "none", device_id |-> "none", hardware_key |-> "none"]

PollInit ==
    /\ pc = [t \in Threads |-> "unstarted"]
    /\ running = [t \in Threads |-> FALSE]
    /\ connected = [t \in Threads |-> FALSE]
    /\ thread_running = [t \in Threads |-> FALSE]
    /\ timer = [t \in Threads |-> 0]
    /\ lastProbe = [t \in Threads |-> "none"]
    /\ was_connected = [t \in Threads |-> FALSE]
    /\ offlineSent = [t \in Threads |-> 0]
    /\ offlineResult = [t \in Threads |-> "none"]
    /\ escaped = [t \in Threads |-> FALSE]
    /\ m_pc = "idle"
    /\ joinLeft = 0
    /\ joinReturned = {}
    /\ authenticated = FALSE
    /\ client = FALSE
    /\ long_polling_thread = 0
    /\ created = 0
    /\ apiOffline = 0
    /\ credentials = [t \in Threads |-> NoCredentials]
    /\ connect_result = "none"

\* DeviceWebSocketClient.__init__ / DeviceWebSocketThread.__init__
WSInit ==
    /\ ws_pc = "unstarted"
    /\ ws_connected = FALSE
    /\ ws_running = FALSE
    /\ websocket = FALSE
    /\ ws_open = FALSE
    /\ ws_thread_running = TRUE
    /\ loop_running = FALSE
    /\ d_pc = "none"
    /\ ws_events = << >>
    /\ ws_lastRecv = "none"
    /\ ws_ping = "none"

ThreadStep(t) ==
    \/ Start_Begin(t)
    \/ Start_While(t)
    \/ \E o \in ProbeOutcomes : Start_Probe(t, o)
    \/ Start_Wait(t)
    \/ Start_Wake(t)
    \/ \E ok \in BOOLEAN : Start_Offline(t, ok)
    \/ Start_Final(t)

MainStep ==
    \/ \E c \in ConnectInputs : ConnectRejected(c)
    \/ \E c \in ConnectInputs : ConnectFail(c)
    \/ \E c \in ConnectInputs : ConnectOK(c)
    \/ CloseEvent
    \/ CloseEvent_Joined
    \/ Quit
    \/ Quit_Joined
    \/ Quit_SetOffline
    \/ ProcessExit

SessionNext ==
    \/ \E t \in Threads : ThreadStep(t)
    \/ MainStep
    \/ Tick

Init == PollInit /\ WSInit /\ UploadInit /\ MessageInit

SpecSession == Init /\ [][SessionNext]_vars

\* A session in which connect_to_server can be called again and the server
\* answers every request of the heartbeat threads in time.
AnsweredStep(t) ==
    \/ Start_Begin(t)
    \/ Start_While(t)
    \/ Start_Probe(t, "ok")
    \/ Start_Wait(t)
    \/ Start_Wake(t)
    \/ Start_Offline(t, TRUE)
    \/ Start_Final(t)

ReconnectNext ==
    \/ \E t \in Threads : AnsweredStep(t)
    \/ MainStep
    \/ Tick

SpecReconnect == Init /\ [][ReconnectNext]_vars

\* A session whose Supervisor is started once: the first successful
\* connect_to_server creates the only heartbeat thread.
FirstConnect == long_polling_thread = 0 /\ \E c \in ConnectInputs : ConnectOK(c)

PollNext ==
    \/ \E t \in Threads : ThreadStep(t)
    \/ \E c \in ConnectInputs : ConnectRejected(c)
    \/ \E c \in ConnectInputs : ConnectFail(c)
    \/ FirstConnect
    \/ CloseEvent
    \/ CloseEvent_Joined
    \/ Quit
    \/ Quit_Joined
    \/ Quit_SetOffline
    \/ ProcessExit
    \/ Tick

SpecPoll == Init /\ [][PollNext]_vars

\* The interpreter schedules every thread that can take a step, and time
\* does not stop.
Handler ==
    CloseEvent_Joined \/ Quit \/ Quit_Joined \/ Quit_SetOffline \/ ProcessExit

FairSpecPoll ==
    /\ SpecPoll
    /\ \A t \in Threads : WF_vars(ThreadStep(t))
    /\ WF_vars(Handler)
    /\ WF_vars(Tick)

\* ------------------------------------------------------------------------
\* DeviceWebSocketThread / DeviceWebSocketClient (persistent stream)
\* ------------------------------------------------------------------------
Fire(cb) == ws_events' = Append(ws_events, cb)

\* Thread.start() of a DeviceWebSocketThread whose callbacks are set
\* (main.py lines 516-528)
WS_ThreadStart ==
    /\ ws_pc = "unstarted"
    /\ ws_pc' = "run"
    /\ UNCHANGED <<ws_connected, ws_running, websocket, ws_open,
                   ws_thread_running, loop_running, d_pc, ws_events,
                   ws_lastRecv, ws_ping, pollVars, mainVars, upVars, msgVars>>

\* DeviceWebSocketThread.run (lines 147-151): the loop starts running
\* connect(), which waits in websockets.connect
WS_Run ==
    /\ ws_pc = "run"
    /\ loop_running' = TRUE
    /\ ws_pc' = "connecting"
    /\ UNCHANGED <<ws_connected, ws_running, websocket, ws_open,
                   ws_thread_running, d_pc, ws_events, ws_lastRecv, ws_ping,
                   pollVars, mainVars, upVars, msgVars>>

\* connect (lines 45-54 when the connection is made, 65-73 when it fails)
WS_Connect(ok) ==
    /\ ws_pc = "connecting"
    /\ IF ok
         THEN /\ websocket' = TRUE
              /\ ws_open' = TRUE
              /\ ws_connected' = TRUE
              /\ ws_running' = TRUE
              /\ Fire("on_connected")
              /\ ws_pc' = "receive"
         ELSE /\ ws_connected' = FALSE
              /\ websocket' = FALSE
              /\ ws_events' = ws_events \o <<"on_error", "on_disconnected">>
              /\ ws_pc' = "finish"
              /\ UNCHANGED <<ws_open, ws_running>>
    /\ UNCHANGED <<ws_thread_running, loop_running, d_pc, ws_lastRecv, ws_ping,
                   pollVars, mainVars, upVars, msgVars>>

\* _receive_messages (line 78): while self.running and self.websocket;
\* when the loop ends connect() leaves its async with and runs its finally
\* (lines 70-73)
WS_Receive ==
    /\ ws_pc = "receive"
    /\ IF ws_running /\ websocket
         THEN /\ ws_pc' = "recv"
              /\ UNCHANGED <<websocket, ws_open, ws_events>>
         ELSE /\ websocket' = FALSE
              /\ ws_open' = FALSE
              /\ Fire("on_disconnected")
              /\ ws_pc' = "finish"
    /\ UNCHANGED <<ws_connected, ws_running, ws_thread_running, loop_running,
                   d_pc, ws_lastRecv, ws_ping, pollVars, mainVars, upVars, msgVars>>

\* _receive_messages (lines 80-92): a message arrives within the 60 s
WS_Message(msg) ==
    /\ ws_pc = "recv" /\ ws_open
    /\ ws_lastRecv' = msg
    /\ ws_pc' = "receive"
    /\ UNCHANGED <<ws_ping, ws_connected, ws_running, websocket, ws_open,
                   ws_thread_running, loop_running, d_pc, ws_events,
                   pollVars, mainVars, upVars, msgVars>>

\* (mutant) the read timeout itself is taken for a lost connection
PingConnected_TimeoutFails(sendOk) == FALSE

\* _send_ping (lines 109-115): connected after the call; only a send that
\* raises clears it
PingConnected(sendOk) ==
    IF websocket /\ ws_connected /\ ~sendOk THEN FALSE ELSE ws_connected

\* _receive_messages (lines 94-100) and _send_ping (lines 107-115): the
\* 60 s read timeout sends a ping; a failed send is caught in _send_ping
WS_ReadTimeout(sendOk) ==
    /\ ws_pc = "recv" /\ ws_open
    /\ ws_lastRecv' = "timeout"
    /\ ws_connected' = PingConnected(sendOk)
    /\ ws_ping' = IF websocket /\ ws_connected
                    THEN (IF sendOk THEN "sent" ELSE "failed")
                    ELSE "skipped"
    /\ ws_pc' = "receive"
    /\ UNCHANGED <<ws_running, websocket, ws_open, ws_thread_running,
                   loop_running, d_pc, ws_events, pollVars, mainVars, upVars, msgVars>>

\* _receive_messages (lines 102-105): recv raises (stream error, close by
\* the peer, or the stream closed by disconnect()); the error is reported
\* and connect() runs its finally (lines 70-73)
WS_StreamError ==
    /\ ws_pc = "recv"
    /\ ws_lastRecv' = "closed"
    /\ websocket' = FALSE
    /\ ws_open' = FALSE
    /\ ws_events' = ws_events \o <<"on_error", "on_disconnected">>
    /\ ws_pc' = "finish"
    /\ UNCHANGED <<ws_connected, ws_running, ws_thread_running, loop_running,
                   d_pc, ws_ping, pollVars, mainVars, upVars, msgVars>>

\* DeviceWebSocketThread.run (lines 151-155): connect() has returned,
\* the loop is closed and the thread ends; connect() is not called again
WS_Finish ==
    /\ ws_pc = "finish"
    /\ loop_running' = FALSE
    /\ ws_pc' = "done"
    /\ UNCHANGED <<ws_connected, ws_running, websocket, ws_open,
                   ws_thread_running, d_pc, ws_events, ws_lastRecv, ws_ping,
                   pollVars, mainVars, upVars, msgVars>>

\* DeviceWebSocketThread.stop (lines 157-165); a disconnect() already
\* scheduled and not yet finished makes the same assignments
WS_stop ==
    /\ ws_thread_running' = FALSE
    /\ d_pc' = IF loop_running /\ d_pc \in {"none", "done"}
                 THEN "scheduled" ELSE d_pc
    /\ UNCHANGED <<ws_pc, ws_connected, ws_running, websocket, ws_open,
                   loop_running, ws_events, ws_lastRecv, ws_ping, pollVars, mainVars, upVars, msgVars>>

\* disconnect (lines 117-129), run by the loop while connect() is waiting
WS_Disconnect ==
    /\ d_pc = "scheduled"
    /\ loop_running /\ ws_pc \in {"connecting", "recv"}
    /\ ws_running' = FALSE
    /\ IF websocket
         THEN /\ ws_open' = FALSE
              /\ d_pc' = "closing"
              /\ UNCHANGED <<websocket, ws_connected>>
         ELSE /\ websocket' = FALSE
              /\ ws_connected' = FALSE
              /\ d_pc' = "done"
              /\ UNCHANGED ws_open
    /\ UNCHANGED <<ws_pc, ws_thread_running, loop_running, ws_events,
                   ws_lastRecv, ws_ping, pollVars, mainVars, upVars, msgVars>>

\* disconnect (lines 127-129): websocket.close() has returned
WS_Disconnected ==
    /\ d_pc = "closing"
    /\ loop_running
    /\ websocket' = FALSE
    /\ ws_connected' = FALSE
    /\ d_pc' = "done"
    /\ UNCHANGED <<ws_pc, ws_running, ws_open, ws_thread_running,
                   loop_running, ws_events, ws_lastRecv, ws_ping, pollVars, mainVars, upVars, msgVars>>

\* DeviceWebSocketClient.is_connected
ws_is_connected == ws_connected /\ websocket

WSNext ==
    \/ WS_ThreadStart
    \/ WS_Run
    \/ \E ok \in BOOLEAN : WS_Connect(ok)
    \/ WS_Receive
    \/ \E msg \in {"pong", "other"} : WS_Message(msg)
    \/ \E sendOk \in BOOLEAN : WS_ReadTimeout(sendOk)
    \/ WS_StreamError
    \/ WS_Finish
    \/ WS_stop
    \/ WS_Disconnect
    \/ WS_Disconnected

SpecWS == Init /\ [][WSNext]_vars

\* C5: the WebSocket supervisor task ends only after an explicit stop(): a
\* failed connection, a stream error or a close by the peer is retried.
C5_SupervisorEndsOnlyAfterStop ==
    ws_pc \in {"finish", "done"} => ~ws_thread_running

\* ------------------------------------------------------------------------
\* The Upload Scheduler of a session that has connected
\* ------------------------------------------------------------------------
UploadNext ==
    \/ FirstConnect
    \/ \E i \in Items : add_meter_data(i)
    \/ \E i \in Items : remove_selected_data(i)
    \/ clear_data_list
    \/ \E i \in Items : toggle_checkbox(i)
    \/ Submit(MaxTasks)
    \/ stop_upload
    \/ \E k \in TaskIds : Worker_Run(k)
    \/ \E k \in TaskIds, o \in Outcomes, e \in ErrorTexts : Worker_Finish(k, o, e)
    \/ on_upload_progress
    \/ on_upload_finished

SpecUpload == Init /\ [][UploadNext]_vars

SpecMessage == Init /\ [][MessageNext]_vars

\* ------------------------------------------------------------------------
\* The worker pool under batches of up to MaxPoolTasks tasks: the operator
\* adds files, submits and cancels, and leaves the rows as they are
\* ------------------------------------------------------------------------
PoolTaskIds == 1..MaxPoolTasks

PoolNext ==
    \/ FirstConnect
    \/ \E i \in Items : add_meter_data(i)
    \/ Submit(MaxPoolTasks)
    \/ stop_upload
    \/ \E k \in PoolTaskIds : Worker_Run(k)
    \/ \E k \in PoolTaskIds, o \in Outcomes, e \in ErrorTexts : Worker_Finish(k, o, e)
    \/ on_upload_progress
    \/ on_upload_finished

SpecPool == Init /\ [][PoolNext]_vars

\* ------------------------------------------------------------------------
\* The rows under the operator's selection actions: files are added,
\* ticked and unticked one by one or all at once, and uploaded
\* ------------------------------------------------------------------------
RowsNext ==
    \/ FirstConnect
    \/ \E i \in Items : add_meter_data(i)
    \/ \E i \in Items : toggle_checkbox(i)
    \/ select_all_data
    \/ deselect_all_data
    \/ Submit(MaxTasks)
    \/ \E k \in TaskIds : Worker_Run(k)
    \/ \E k \in TaskIds, o \in Outcomes, e \in ErrorTexts : Worker_Finish(k, o, e)
    \/ on_upload_progress
    \/ on_upload_finished

SpecRows == Init /\ [][RowsNext]_vars

\* ------------------------------------------------------------------------
\* Batches that are not cancelled: files are added and uploaded, every
\* task that holds a thread runs on, every transfer returns or raises, and
\* the event loop handles every queued signal
\* ------------------------------------------------------------------------
BatchNext ==
    \/ FirstConnect
    \/ \E i \in Items : add_meter_data(i)
    \/ Submit(MaxPoolTasks)
    \/ \E k \in PoolTaskIds : Worker_Run(k)
    \/ \E k \in PoolTaskIds, o \in Outcomes, e \in ErrorTexts : Worker_Finish(k, o, e)
    \/ on_upload_progress
    \/ on_upload_finished

TransferEnds(k) == \E o \in Outcomes, e \in ErrorTexts : Worker_Finish(k, o, e)

FairSpecBatch ==
    /\ Init /\ [][BatchNext]_vars
    /\ \A k \in PoolTaskIds : WF_vars(Worker_Run(k)) /\ WF_vars(TransferEnds(k))
    /\ WF_vars(on_upload_progress)
    /\ WF_vars(on_upload_finished)

\* ------------------------------------------------------------------------
\* Properties of the Upload Scheduler
\* ------------------------------------------------------------------------
\* the finished signals of task k that wait for delivery
PendingResults(k) ==
    {n \in 1..Len(events) : events[n].sig = "finished" /\ events[n].task = k}

\* C1: in every reachable state the number of UploadWorker tasks that hold
\* a pool thread (run() started, result not yet emitted) is at most the
\* configured concurrent_uploads, whatever the number of submitted items
\* and the number of upload_data calls.
C1_InFlightWithinLimit == Cardinality(Active(tasks)) <= maxThreadCount

\* C1 case: a second batch has been submitted while a task of the first
\* still runs, the pool is full and a task waits in its queue
C1_Witness ==
    /\ batches >= 2
    /\ Cardinality(Active(tasks)) = maxThreadCount
    /\ \E k \in Active(tasks), q \in Queued(tasks) :
          /\ tasks[k].state = "uploading"
          /\ tasks[k].batch < tasks[q].batch

\* C2: every task whose run() has returned has emitted exactly one
\* finished signal, whether the transfer returned, returned something
\* unusable or raised; a task that has not returned has emitted none.
C2_ExactlyOneFinished ==
    \A k \in 1..Len(tasks) :
        /\ tasks[k].state = "done" => tasks[k].emitted = 1
        /\ tasks[k].state # "done" => tasks[k].emitted = 0
        /\ Cardinality(PendingResults(k)) <= tasks[k].emitted

\* C2 case: a task raised after it had reported 100% and its one failed
\* result waits for delivery
C2_Witness ==
    \E k \in 1..Len(tasks) :
        /\ tasks[k].state = "done" /\ tasks[k].emitted = 1
        /\ \E n \in PendingResults(k) :
              /\ ~events[n].success
              /\ n > 2
              /\ events[n - 2] = Progress(k, events[n].name, 100)
              /\ events[n - 1] = Progress(k, events[n].name, 0)

\* C3: task isolation. The result of a transfer that raised is a failed
\* result with a non-empty message, and when it is handled while the item
\* of its task is in the queue it is applied to that item, not to another
\* item of the batch.
C3_TaskIsolation ==
    /\ \A n \in 1..Len(events) :
          (events[n].sig = "finished" /\ ~events[n].success)
              => Len(events[n].message) > 0
    /\ (dispatched.task # 0 /\ dispatched.own /\ ~dispatched.success)
          => dispatched.item = tasks[dispatched.task].item

\* the tasks for item i that a step has created
CreatedFor(i) ==
    {k \in (Len(tasks) + 1)..Len(tasks') : tasks'[k].item = i}

\* C16: a step that creates tasks (upload_data) is taken only in an
\* authenticated session with a non-empty queue, and creates exactly one
\* task for each item of the queue whose checkbox is ticked and which is not
\* uploaded, and none for any other item; an item is put in flight, and the
\* upload/stop controls are switched to their uploading setting, only by
\* such a step.
C16_OneTaskPerSelectedItem ==
    [][ /\ Len(tasks') > Len(tasks) =>
              /\ authenticated /\ Len(data_items) > 0
              /\ \A i \in Items :
                    Cardinality(CreatedFor(i)) =
                        IF InQueue(i) /\ checked[i] /\ ~uploaded[i] THEN 1 ELSE 0
        /\ \A i \in Items :
              (status'[i] = "uploading" /\ status[i] # "uploading")
                  => Cardinality(CreatedFor(i)) = 1
        /\ (stop_upload_btn' /\ ~stop_upload_btn) => Len(tasks') > Len(tasks)
        /\ (Len(tasks') = Len(tasks) /\ upload_btn /\ ~upload_btn')
              => Len(data_items') < Len(data_items)
      ]_vars

\* C16 case: one batch has been submitted from a queue that held a ticked
\* and an unticked item; the first has its task, the second has none
C16_Witness ==
    /\ batches = 1
    /\ \E i, j \in Items :
          /\ InQueue(i) /\ InQueue(j)
          /\ status[i] = "uploading" /\ status[j] = "waiting" /\ ~checked[j]
          /\ Cardinality({k \in 1..Len(tasks) : tasks[k].item = i}) = 1
          /\ {k \in 1..Len(tasks) : tasks[k].item = j} = {}

\* ------------------------------------------------------------------------
\* Properties of the polling Supervisor and of shutdown sequencing
\* ------------------------------------------------------------------------
Started(t) == pc[t] # "unstarted"
\* stop() has been called on thread t (only stop() clears the thread's flag)
StopCalled(t) == Started(t) /\ ~thread_running[t]
\* time the thread's current blocking call still has to run
RemainingBlock(t) == IF pc[t] \in TimedPcs THEN timer[t] ELSE 0
ShutdownComplete(t) == pc[t] = "done" /\ offlineSent[t] >= 1

\* C4: after every failed probe (non-200 status, timeout, connection error
\* or any other exception), unless stop() is called, the loop issues
\* another probe.
C4_FailedProbeIsFollowedByProbe ==
    \A t \in Threads :
        [](  (lastProbe[t] \in ProbeFailures /\ ~StopCalled(t))
          => <>(pc[t] = "probe" \/ StopCalled(t)) )

\* C4 witness: a probe in flight right after a failed one, stop() not called
C4_Witness ==
    \E t \in Threads :
        pc[t] = "probe" /\ lastProbe[t] = "error" /\ ~StopCalled(t)

\* C6: once the stop request stands, the loop needs at most the probe
\* timeout before it observes it, whatever heartbeat_interval is.
C6_StopLatencyBoundedByProbeTimeout ==
    \A t \in Threads :
        (StopCalled(t) /\ ~running[t] /\ pc[t] \in LoopPcs)
            => RemainingBlock(t) <= ProbeTimeout

\* C7: when stop() followed by join() has returned, the loop has exited and
\* its departure notification has been attempted.
C7_JoinReturnsAfterShutdown ==
    \A t \in joinReturned : pc[t] \notin LoopPcs /\ offlineSent[t] >= 1

\* C8: when the process exits after a session that started a Supervisor
\* loop, at least one departure notification has been attempted.
C8_DepartureAttemptedBeforeExit ==
    (m_pc = "exited" /\ created > 0)
        => (apiOffline > 0 \/ \E t \in Threads : offlineSent[t] > 0)

\* C9: the loop issues its departure notification once, only after it has
\* left the loop for good, and whether the notification succeeds or fails
\* start() ends with connected = False and without raising.
C9_OneSwallowedDepartureNotice ==
    \A t \in Threads :
        /\ offlineSent[t] <= 1
        /\ offlineSent[t] = 1 => pc[t] \in {"offline", "final", "done"}
        /\ pc[t] \in {"offline", "final", "done"} => offlineSent[t] = 1
        /\ offlineResult[t] # "none" => pc[t] \in {"final", "done"}
        /\ pc[t] = "done" => (~connected[t] /\ ~escaped[t])

\* C9 witness: the notification failed and start() has returned
C9_Witness ==
    \E t \in Threads :
        pc[t] = "done" /\ offlineResult[t] = "failed" /\ lastProbe[t] # "none"

\* C10: after a stop request is_connected() turns False only when the
\* shutdown sequence (loop exit, departure notification) is complete.
C10_DisconnectedOnlyAfterShutdown ==
    \A t \in Threads :
        (StopCalled(t) /\ connected[t] /\ ~is_connected(t))
            => ShutdownComplete(t)

\* the texts a heartbeat thread was constructed with
Given(t) == {credentials[t].server_url, credentials[t].device_id,
             credentials[t].hardware_key}

\* C11: a connect_to_server call with an empty server address, device id
\* or hardware key starts nothing: every heartbeat thread that exists (and
\* so every probe) carries three non-empty credentials, and the
\* authenticated flag is set only together with such a thread.
C11_EmptyCredentialsStartNothing ==
    /\ \A t \in Threads : Started(t) => "" \notin Given(t)
    /\ authenticated =>
          (long_polling_thread # 0 /\ "" \notin Given(long_polling_thread))
    /\ (connect_result = "warning" /\ created = 0) => ~authenticated

\* C11 case: the first connect attempt was made with something missing and
\* has returned with its warning
C11_Witness ==
    /\ connect_result = "warning"
    /\ created = 0 /\ ~authenticated
    /\ \A t \in Threads : ~Started(t)

\* C12: while the loop is running, after every completed probe the
\* connection state is that probe's outcome (connected after HTTP 200, not
\* connected after a timeout, a connection error, another exception or a
\* non-200 response), and the loop has not ended because of the probe.
C12_StateReflectsLastProbe ==
    \A t \in Threads :
        /\ (lastProbe[t] # "none" /\ pc[t] \in LoopPcs)
              => (connected[t] <=> lastProbe[t] = "ok")
        /\ (lastProbe[t] # "none" /\ pc[t] \in LoopPcs /\ running[t])
              => (is_connected(t) <=> lastProbe[t] = "ok")
        /\ pc[t] \notin LoopPcs \cup {"unstarted", "start"} => ~running[t]
        /\ ~escaped[t]

\* C12 case: the loop waits for its next probe after one that timed out
C12_Witness ==
    \E t \in Threads :
        pc[t] = "sleep" /\ lastProbe[t] = "timeout" /\ running[t] /\ ~connected[t]

\* everything a caller can read of the Supervisor's connection state: the
\* two flags behind is_connected() (lines 28-29, 103-105)
View(t) == [connected |-> connected[t], running |-> running[t]]

\* the view from line 39 until the first probe has completed (Connecting)
ConnectingView == [connected |-> FALSE, running |-> TRUE]

\* the loop is running and a probe has failed after one had succeeded
Degraded(t) == running[t] /\ was_connected[t] /\ ~connected[t]

\* C13: Connecting is entered only at startup; a probe failure after the
\* Supervisor was Connected yields Degraded, a state that a caller can tell
\* from Connecting.
C13_DegradedIsDistinguishable ==
    \A t \in Threads :
        /\ (pc[t] \in LoopPcs /\ running[t] /\ lastProbe[t] = "none")
              => View(t) = ConnectingView
        /\ Degraded(t) => View(t) # ConnectingView

\* ------------------------------------------------------------------------
\* The two strategies side by side
\* ------------------------------------------------------------------------
\* the callbacks a LowerLongPollingThread has fired, whatever the server
\* did: the class keeps no callbacks and connect_to_server sets none for it
\* (long_polling_client.py lines 108-135, main.py lines 499-512)
polling_events == << >>

\* C14: for the same reachability outcomes and stop requests the
\* persistent-stream strategy fires the same onConnected / onDisconnected /
\* onError events as the polling strategy.
C14_StrategiesFireSameCallbacks == ws_events = polling_events

\* ------------------------------------------------------------------------
\* Properties of the persistent-stream strategy
\* ------------------------------------------------------------------------
ws_StopCalled == ~ws_thread_running

\* C15: a read timeout is not a failure. While the latest wait ended in a
\* timeout whose ping was sent, the connection state is still connected and
\* the receive loop has not ended unless stop() was called; after a
\* connection was made, connected is cleared only by a send that raised or
\* by the disconnect() that stop() schedules.
C15_ReadTimeoutKeepsConnection ==
    /\ (ws_lastRecv = "timeout" /\ ws_ping = "sent" /\ ~ws_StopCalled)
          => ws_connected
    /\ (ws_lastRecv = "timeout" /\ ws_pc \in {"finish", "done"})
          => ws_StopCalled
    /\ (ws_pc \in {"receive", "recv"} /\ ~ws_connected)
          => (ws_ping \in {"failed", "skipped"} \/ ws_StopCalled)

\* C15 case: after a read timeout the ping went out and the loop waits in
\* recv again, still connected, stop() not called
C15_Witness ==
    /\ ws_lastRecv = "timeout" /\ ws_ping = "sent"
    /\ ws_pc = "recv" /\ ws_is_connected /\ ~ws_StopCalled

\* a pool thread has been given the task
Admitted(k) == tasks[k].state \in {"started", "uploading", "done"}

\* C17: of two tasks of one batch, the one submitted later is never given
\* a pool thread while the one submitted earlier has not been given one.
C17_AdmittedInSubmissionOrder ==
    \A a, b \in 1..Len(tasks) :
        (a < b /\ tasks[a].batch = tasks[b].batch /\ Admitted(b)) => Admitted(a)

\* two tasks of one batch waited in the queue and both have been admitted
C17_Witness ==
    /\ Len(tasks) = MaxPoolTasks /\ maxThreadCount = 1
    /\ tasks[1].batch = tasks[MaxPoolTasks].batch
    /\ \A k \in 1..Len(tasks) : tasks[k].state = "done"

\* a slot takes the first queued signal and writes it to the row of item i
DeliveredTo(i) ==
    /\ Len(events) > 0 /\ events' = Tail(events)
    /\ FirstNamed(Head(events).name, 1) = i

\* the row of item i shows the result of its upload
HasResult(i) == status[i] \in {"success", "failed"}

\* C18: no progress event and no second result is delivered to an item
\* that has received its result (and has not been submitted again since).
C18_NothingDeliveredAfterResult ==
    [][\A i \in Items : DeliveredTo(i) => ~HasResult(i)]_vars

\* the signals a step of a worker emits
Emitted ==
    IF Len(events') > Len(events)
      THEN SubSeq(events', Len(events) + 1, Len(events')) ELSE << >>

\* C19: the signal a task emits just before its result, successful or
\* failed, is its progress at 100.
C19_ResultFollowsFullProgress ==
    [][\A n \in 1..Len(Emitted) :
          Emitted[n].sig = "finished" =>
             /\ n > 1
             /\ Emitted[n - 1] = Progress(Emitted[n].task, Emitted[n].name, 100)
      ]_vars

\* the operator confirms stop_upload in this step
StopConfirmed == stop_upload_btn /\ ~stop_upload_btn' /\ events' = events

\* C20: a task that waits in the queue when stop_upload is confirmed is
\* dropped, and a dropped task never starts and never emits a signal; its
\* item runs again only as a new task of a later upload_data.
C20_ClearedTasksNeverRun ==
    [][ /\ StopConfirmed =>
              \A k \in 1..Len(tasks) :
                  tasks[k].state = "queued" => tasks'[k].state = "cleared"
        /\ \A k \in 1..Len(tasks) :
              tasks[k].state = "cleared" =>
                 /\ tasks'[k] = tasks[k] /\ tasks[k].emitted = 0
                 /\ \A n \in 1..Len(Emitted) : Emitted[n].task # k
      ]_vars

\* a task was dropped by stop_upload, the task that was running has
\* delivered its result, and the item of the dropped task has been
\* uploaded by a task of a later batch
C20_Witness ==
    \E k, j \in 1..Len(tasks) :
        /\ tasks[k].state = "cleared" /\ tasks[j].state = "done"
        /\ tasks[j].item = tasks[k].item /\ tasks[j].batch > tasks[k].batch
        /\ events = << >> /\ status[tasks[k].item] = "success"

\* on_upload_finished handles the result of task k in this step
ResultDelivered(k) ==
    /\ Len(events) > 0 /\ Head(events).sig = "finished"
    /\ Head(events).task = k /\ events' = Tail(events)

\* Task k held a pool thread when stop_upload was confirmed: the task
\* submitted right after it in its batch was dropped from the queue.  (That
\* task waited, so every thread was taken; had k ended before the stop, its
\* thread would have taken the waiting task.)
RanAtStop(k) ==
    /\ k + 1 \in 1..Len(tasks)
    /\ tasks[k + 1].batch = tasks[k].batch
    /\ tasks[k + 1].state = "cleared"
    /\ tasks[k].state # "cleared"

\* C21: a task that holds a pool thread when stop_upload is confirmed is
\* left as it is, is never dropped, emits exactly one result when it ends,
\* and that result sets the status of the task's own item (while the item
\* is in the queue) to succeeded or failed.
C21_RunningTaskSurvivesStop ==
    [][ /\ StopConfirmed =>
              \A k \in 1..Len(tasks) :
                  tasks[k].state \in {"started", "uploading"} => tasks'[k] = tasks[k]
        /\ \A k \in 1..Len(tasks) :
              RanAtStop(k) =>
                 /\ tasks'[k].state # "cleared"
                 /\ (tasks[k].state # "done" /\ tasks'[k].state = "done")
                       => FinishedIn(Emitted) = 1
                 /\ (ResultDelivered(k) /\ InQueue(tasks[k].item))
                       => status'[tasks[k].item] =
                             IF Head(events).success THEN "success" ELSE "failed"
      ]_vars

\* check_all_uploads_finished, called at the end of on_upload_finished,
\* reports the final tally in this step
Reported ==
    /\ Len(events) > 0 /\ Head(events).sig = "finished"
    /\ events' = Tail(events)
    /\ ReportsCompletion(status')

\* the number of items upload_data submitted as batch b
BatchSize(b) == Cardinality({k \in 1..Len(tasks) : tasks[k].batch = b})

\* C22: the tally that is reported counts the items of the batch just
\* submitted and no others: successes plus failures equal its size.
C22_TallyCountsLatestBatch ==
    [][Reported =>
          success_count(status') + fail_count(status') = BatchSize(batches)]_vars

\* the tasks of batch b, among ts, that have yet to run to their end or
\* whose result waits in q to be handled
Outstanding(ts, q, b) ==
    {k \in 1..Len(ts) :
        /\ ts[k].batch = b
        /\ \/ ts[k].state \in {"queued", "started", "uploading"}
           \/ \E n \in 1..Len(q) : q[n].sig = "finished" /\ q[n].task = k}

\* no task of batch b has been dropped by stop_upload
Uncancelled(b) ==
    \A k \in 1..Len(tasks) : tasks[k].batch = b => tasks[k].state # "cleared"

\* C23: the tally is reported only on a result of the batch just submitted
\* that leaves no task of the batch in flight, and, for a batch that was not
\* cancelled, the step that handles its last result does report it.
C23_TallyReportedOncePerBatch ==
    [][ /\ Reported =>
              /\ tasks[Head(events).task].batch = batches
              /\ Outstanding(tasks', events', batches) = {}
        /\ \A k \in 1..Len(tasks) :
              ( /\ ResultDelivered(k) /\ tasks[k].batch = batches
                /\ Uncancelled(batches)
                /\ Outstanding(tasks', events', batches) = {} ) => Reported
      ]_vars

\* the tally check_all_uploads_finished reports for the rows st
Tally(st) == <<success_count(st), fail_count(st)>>

\* C24: when the result about to be handled completes the uploads,
\* evaluating check_all_uploads_finished twice in a row reports the same
\* tally both times, changes no row status, no selection and no task of
\* the pool, and the second evaluation changes nothing at all.
C24_CompletionCheckIsIdempotent ==
    (Len(events) > 0 /\ Head(events).sig = "finished"
        /\ ReportsCompletion(AfterResult.status)) =>
      LET once == check_all_uploads_finished(AfterResult)
          twice == check_all_uploads_finished(once) IN
        /\ Tally(once.status) = Tally(AfterResult.status)
        /\ once.status = AfterResult.status
        /\ once.checked = AfterResult.checked
        /\ once.uploaded = AfterResult.uploaded
        /\ once.tasks = AfterResult.tasks
        /\ twice = once

\* the last result of a batch is about to be handled and completes a
\* tally with a success and a failure
C24_Witness ==
    /\ Len(events) > 0 /\ Head(events).sig = "finished"
    /\ ReportsCompletion(AfterResult.status)
    /\ Tally(AfterResult.status) = <<1, 1>>
    /\ stop_upload_btn

\* on_upload_finished writes a successful result to the row of item i
SuccessDeliveredTo(i) ==
    DeliveredTo(i) /\ Head(events).sig = "finished" /\ Head(events).success

Original == get(reply.result, "original_size", 0)
Compressed == get(reply.result, "compressed_size", 0)

\* C26: the compression ratio is (original - compressed) / original * 100
\* whenever original > 0, which is 75 for 2000000 and 500000, and it is 0,
\* with no division error, when original is 0 or missing.
C26_CompressionRatio ==
    built.done =>
      /\ ~built.ratio.raised
      /\ Original > 0 =>
            built.ratio = Fraction((Original - Compressed) * 100, Original)
      /\ (Original = 2000000 /\ Compressed = 500000) =>
            (built.ratio.num = 75 /\ built.ratio.den = 1)
      /\ ("original_size" \notin DOMAIN reply.result \/ Original = 0) =>
            built.ratio.num = 0

\* the ratio has been computed for a response without an original size
C26_Witness ==
    /\ built.done /\ "original_size" \notin DOMAIN reply.result
    /\ "compressed_size" \in DOMAIN reply.result /\ Compressed = 500000
    /\ built.ratio = Zero

\* the lines of a message that give compression information
CompressionLines == {"original size", "compressed size", "compression ratio"}

\* C27: the message built for an image item whose response carries both
\* sizes includes the compression ratio, whatever the two sizes are, and
\* the message built for a tabular item has no compression information.
C27_ImageMessageHasRatio ==
    (built.done /\ ~built.ratio.raised) =>
      /\ (reply.is_image /\ DOMAIN reply.result = SizeKeys) =>
            "compression ratio" \in SeqToSet(built.message)
      /\ ~reply.is_image =>
            SeqToSet(built.message) \cap CompressionLines = {}

\* the operator ticks or unticks rows in this step (a checkbox, select all
\* or deselect all): checkboxes change, and no row is added or removed and
\* no result is handled
OperatorSelects ==
    checked' # checked /\ data_items' = data_items /\ events' = events

\* C28: a selection action of the operator changes the checkbox of no row
\* that is in flight, and changes the status of no row.
C28_SelectionLeavesInFlightRows ==
    [][OperatorSelects =>
          /\ \A i \in Items : checked'[i] # checked[i] => status[i] # "uploading"
          /\ status' = status
      ]_vars

\* the rows that show the in-flight status
InFlightRows == {i \in Items : InQueue(i) /\ status[i] = "uploading"}

\* C29: the number of rows that show the in-flight status never exceeds
\* the configured number of concurrent uploads.
C29_InFlightRowsWithinLimit == Cardinality(InFlightRows) <= maxThreadCount

\* C30: in a batch that is not cancelled, every row that is in flight
\* eventually shows succeeded or failed, and the completion report, which
\* disables the stop control again, is eventually produced.
C30_EveryItemEndsAndBatchIsReported ==
    /\ \A i \in Items :
          (status[i] = "uploading") ~> (status[i] \in {"success", "failed"})
    /\ stop_upload_btn ~> ~stop_upload_btn


\* a slot (on_upload_progress or on_upload_finished) handles a signal of
\* task k in this step
SignalDelivered(k) ==
    /\ Len(events) > 0 /\ Head(events).task = k /\ events' = Tail(events)

\* the row of item i is written in this step
RowWritten(i) ==
    \/ status'[i] # status[i] \/ progress'[i] # progress[i]
    \/ uploaded'[i] # uploaded[i] \/ checked'[i] # checked[i]

\* C31: a progress or result signal of a task is applied to the row of the
\* item the task was created for (while that item is in the queue) and
\* writes no other row, whatever the queue holds, two paths with one file
\* name included.
C31_SignalUpdatesOwnItemOnly ==
    [][\A k \in 1..Len(tasks) :
          SignalDelivered(k) =>
             /\ InQueue(tasks[k].item)
                   => FirstNamed(Head(events).name, 1) = tasks[k].item
             /\ \A i \in Items : RowWritten(i) => i = tasks[k].item
      ]_vars


\* the tasks of item i that wait in the queue of the pool or hold a thread
InFlightTasks(i) ==
    {k \in 1..Len(tasks) :
        tasks[k].item = i /\ tasks[k].state \in {"queued", "started", "uploading"}}

\* C32: at no time does an item have more than one task queued or running,
\* whatever the sequence of upload_data, stop_upload and task completions.
C32_OneTaskInFlightPerItem ==
    \A i \in Items : Cardinality(InFlightTasks(i)) <= 1


\* no task waits or runs and no signal waits to be handled
Quiescent ==
    /\ events = << >>
    /\ \A k \in 1..Len(tasks) : tasks[k].state \in {"done", "cleared"}

\* the tasks of the batch submitted last that stop_upload dropped
Discarded ==
    {k \in 1..Len(tasks) : tasks[k].batch = batches /\ tasks[k].state = "cleared"}

\* C33: once stop_upload has been confirmed and the tasks that were running
\* have delivered their results, no item whose queued task was dropped
\* still shows the in-flight status, and check_all_uploads_finished finds
\* every row finished.
C33_StoppedBatchLeavesNoRowInFlight ==
    (Quiescent /\ Discarded # {}) =>
        /\ \A k \in Discarded : status[tasks[k].item] # "uploading"
        /\ all_finished(status)


\* ------------------------------------------------------------------------
\* Further properties of the Supervisor
\* ------------------------------------------------------------------------
\* the loop of thread t tests its flag and goes on to another probe
LoopGoesOn(t) == pc[t] = "loop" /\ pc'[t] = "probe"

\* C34: a stop() issued at any moment after LowerLongPollingThread.start,
\* also before the thread has executed the first statement of
\* LowerLongPollingClient.start, is not lost: the flag the loop tests stays
\* down, and the next test of the loop condition leaves the loop.
C34_StopRequestIsNeverLost ==
    [][\A t \in Threads :
          StopCalled(t) => /\ ~running'[t]
                           /\ ~LoopGoesOn(t)]_vars


\* the heartbeat threads that have been started, have not run to their end
\* and on which stop() has not been called
Unstopped ==
    {t \in Threads : Started(t) /\ pc[t] # "done" /\ ~StopCalled(t)}

\* C35: whatever the sequence of connect_to_server calls, at most one
\* heartbeat thread runs without having been stopped, and it is the one
\* self.long_polling_thread refers to, which closeEvent stops.
C35_OneSupervisorLoop ==
    Alive => /\ Cardinality(Unstopped) <= 1
             /\ \A t \in Unstopped : long_polling_thread = t


\* C36: when the ping sent after a read timeout fails, the receive loop
\* ends (connect() returns and on_disconnected fires): the loop never waits
\* in recv again after a failed ping.
C36_FailedPingEndsReceiveLoop == ws_ping = "failed" => ws_pc # "recv"

\* how often callback cb has fired
Fired(cb) == Cardinality({n \in 1..Len(ws_events) : ws_events[n] = cb})

\* the callbacks fired in this step
FiredNow ==
    IF Len(ws_events') > Len(ws_events)
      THEN {ws_events'[n] : n \in (Len(ws_events) + 1)..Len(ws_events')}
      ELSE {}

\* the loop waits in recv on a stream that the disconnect() scheduled by
\* DeviceWebSocketThread.stop has closed
StopInitiated == ~ws_thread_running /\ ws_pc = "recv" /\ ~ws_open

\* C37: for the call of connect(), on_connected fires at most once;
\* on_disconnected fires at most once and has fired once connect() has
\* returned; on_disconnected fires only after on_connected; and on_error
\* is not fired for a disconnect that stop() initiated.
C37_CallbackProtocol ==
    [][ /\ Fired("on_connected")' <= 1
        /\ Fired("on_disconnected")' <= 1
        /\ ws_pc' \in {"finish", "done"} => Fired("on_disconnected")' = 1
        /\ "on_disconnected" \in FiredNow => Fired("on_connected") = 1
        /\ "on_error" \in FiredNow => ~StopInitiated
      ]_vars


\* C38: whenever no upload task is queued or running (and no result waits
\* to be handled), in an authenticated session with a non-empty queue, the
\* add and upload controls are enabled and the stop control is disabled,
\* whatever the operator removed, cleared or stopped during the batch.
C38_IdleWhenNoTaskInFlight ==
    (Quiescent /\ authenticated /\ Len(data_items) > 0) =>
        add_btn /\ upload_btn /\ ~stop_upload_btn

============================================================================
